---- MODULE Spec2Model ----
(***************************************************************************)
(* ArticleSummarizer (src/src/article_summarizer.py): tf-idf sentence      *)
(* ranking with positional weighting and top-percentage selection.         *)
(*                                                                         *)
(* Python objects are modelled by value.  A dict is a function over Word   *)
(* whose value 0 stands for "key absent" (every stored count is >= 1).     *)
(* A float score is an exact non-negative rational <<numerator,            *)
(* denominator>> in lowest terms.  The class attributes __sentence_scores  *)
(* and __word_frequency are process-wide objects: one variable each.       *)
(***************************************************************************)
EXTENDS Integers, Sequences, FiniteSets, TLC

\* Bounds of the model.
MaxConstructions == 2
MaxSentences == 2
MaxCount == 12

\* The sentences an article is made of, and the nouns the tokenizer finds.
Sentence == {"Cat cat.", "Dog cat.", "Run.", "Go."}
Word == {"cat", "dog"}

\* Percentages handed to get_top_sentences.
Percentage == {-100, -50, 0, 34, 67, 100}

VARIABLES
    word_frequency,      \* class attribute __word_frequency (line 14)
    sentence_scores,     \* class attribute __sentence_scores (line 13)
    document_frequency,  \* the caller's document-frequency table (a dict)
    document_count,      \* the caller's document count (an int it holds)
    sentences,           \* self.sentences of the latest instance
    document_number,     \* self.document_number of the latest instance
    self_sentence_scores,\* instance attribute __sentence_scores (line 60)
    ranked_sentences,    \* self.ranked_sentences of the latest instance
    idf_calls,           \* arguments of the idf calls of the latest construction
    top_sentences,       \* last get_top_sentences call on the latest instance
    history,             \* constructions so far: article and document_number argument
    position             \* one positional lookup: index, count, branch, weight

vars == <<word_frequency, sentence_scores, document_frequency, document_count,
          sentences, document_number, self_sentence_scores, ranked_sentences,
          idf_calls, top_sentences, history, position>>

summarizer_vars == <<word_frequency, sentence_scores, document_frequency,
                     document_count, sentences, document_number,
                     self_sentence_scores, ranked_sentences, idf_calls,
                     top_sentences, history>>

----------------------------------------------------------------------------
\* Helpers

Range(s) == {s[i] : i \in 1..Len(s)}

RECURSIVE GCD(_, _)
GCD(a, b) == IF b = 0 THEN a ELSE GCD(b, a % b)

\* n/d in lowest terms (n >= 0, d > 0).
Rat(n, d) == LET g == GCD(n, d) IN <<n \div g, d \div g>>

Zero == Rat(0, 1)

RatAdd(x, y) == Rat(x[1] * y[2] + y[1] * x[2], x[2] * y[2])

RatMul(x, y) ==
    LET a == Rat(x[1], y[2])
        b == Rat(y[1], x[2])
    IN  <<a[1] * b[1], a[2] * b[2]>>

\* a/b < c/d by continued-fraction expansion (no cross products).
RECURSIVE FracLess(_, _, _, _)
FracLess(a, b, c, d) ==
    LET q1 == a \div b
        q2 == c \div d
        r1 == a % b
        r2 == c % d
    IN  IF q1 # q2 THEN q1 < q2
        ELSE IF r2 = 0 THEN FALSE
        ELSE IF r1 = 0 THEN TRUE
        ELSE FracLess(d, r2, b, r1)

RatLess(x, y) == FracLess(x[1], x[2], y[1], y[2])

----------------------------------------------------------------------------
\* Collaborators (tokenizer, tf_idf)

\* tokenize_sentence: an article is represented by its sentences in order.
tokenize_sentence(article) == article

\* tokenize_word(sentence, only_noun=True): the nouns of a sentence, in order.
tokenize_word(sentence) ==
    CASE sentence = "Cat cat." -> <<"cat", "cat">>
      [] sentence = "Dog cat." -> <<"dog", "cat">>
      [] OTHER -> <<>>

RECURSIVE SumOver(_, _)
SumOver(f, S) ==
    IF S = {} THEN 0
    ELSE LET w == CHOOSE x \in S : TRUE IN f[w] + SumOver(f, S \ {w})

\* term_frequency: the word's count over the total of the counts in the table.
tf(word, frequency) == Rat(frequency[word], SumOver(frequency, Word))

\* inverse_document_frequency: decreasing in the number of documents that hold
\* the word; maximal for a word missing from the table.
idf(word, number, frequency) ==
    IF frequency[word] = 0 THEN Rat(number + 1, 1)
    ELSE Rat(number, frequency[word])

----------------------------------------------------------------------------
\* ArticleSummarizer.__init__, lines 32-64

\* line 33: self.document_number = document_number + 1
NewDocumentNumber_NoIncrement(number) == number

NewDocumentNumber(number) == number + 1

\* lines 41-44: count one occurrence of a word
CountWord(frequency, word) ==
    [frequency EXCEPT ![word] = IF frequency[word] = 0 THEN 1
                                ELSE frequency[word] + 1]

\* lines 40-44: the words of one sentence
RECURSIVE CountWordsOf(_, _)
CountWordsOf(frequency, words) ==
    IF words = <<>> THEN frequency
    ELSE CountWordsOf(CountWord(frequency, Head(words)), Tail(words))

\* lines 38-44: every sentence of the article, into the table given
RECURSIVE CountWords(_, _)
CountWords(frequency, sents) ==
    IF sents = <<>> THEN frequency
    ELSE CountWords(CountWordsOf(frequency, tokenize_word(Head(sents))),
                    Tail(sents))

\* lines 36, 46: the distinct words of the article
WordSet(sents) ==
    UNION {Range(tokenize_word(sents[i])) : i \in 1..Len(sents)}

\* lines 48-52: one more document for each distinct word
UpdateDocumentFrequency_Overwrite(frequency, word_set) ==
    [w \in Word |-> IF w \in word_set THEN 1 ELSE frequency[w]]

UpdateDocumentFrequency_Skip(frequency, word_set) == frequency

UpdateDocumentFrequency(frequency, word_set) ==
    [w \in Word |->
        IF w \in word_set
        THEN IF frequency[w] = 0 THEN 1 ELSE frequency[w] + 1
        ELSE frequency[w]]

\* lines 80-84: __word_score
word_score(word, frequency, number, table) ==
    RatMul(tf(word, frequency), idf(word, number, table))

RECURSIVE TotalScore(_, _, _, _)
TotalScore(words, frequency, number, table) ==
    IF words = <<>> THEN Zero
    ELSE RatAdd(word_score(Head(words), frequency, number, table),
                TotalScore(Tail(words), frequency, number, table))

\* lines 66-78: __sentence_score
sentence_score(sentence, frequency, number, table) ==
    LET words == tokenize_word(sentence)
    IN  IF words = <<>> THEN Zero
        ELSE RatMul(TotalScore(words, frequency, number, table),
                    Rat(1, Len(words)))

\* lines 54-56: one [score, sentence] pair per sentence, appended to the list
\* that self.__sentence_scores names
AppendScores(scores, sents, frequency, number, table) ==
    scores \o [i \in 1..Len(sents) |->
                  [score |-> sentence_score(sents[i], frequency, number, table),
                   sentence |-> sents[i]]]

\* The (word, document_number, document_frequency[word]) of each idf call made
\* while scoring (line 83, reached from lines 55-56 and 75-76).
IdfCalls(sents, number, table) ==
    {[word |-> w, document_number |-> number, frequency |-> table[w]] :
        w \in WordSet(sents)}

----------------------------------------------------------------------------
\* ArticleSummarizer.__weigh_sentences_by_position, lines 86-116

\* tenths/10 <= index/count and index/count < tenths/10
AtLeast(index, count, tenths) == tenths * count <= 10 * index
Below(index, count, tenths) == 10 * index < tenths * count

PositionBranch_Closed(index, count) ==
    IF AtLeast(index, count, 0) /\ 10 * index <= 1 * count THEN 1
    ELSE IF AtLeast(index, count, 1) /\ 10 * index <= 2 * count THEN 2
    ELSE IF AtLeast(index, count, 2) /\ 10 * index <= 3 * count THEN 3
    ELSE IF AtLeast(index, count, 3) /\ 10 * index <= 4 * count THEN 4
    ELSE IF AtLeast(index, count, 4) /\ 10 * index <= 5 * count THEN 5
    ELSE IF AtLeast(index, count, 5) /\ 10 * index <= 6 * count THEN 6
    ELSE IF AtLeast(index, count, 6) /\ 10 * index <= 7 * count THEN 7
    ELSE IF AtLeast(index, count, 7) /\ 10 * index <= 8 * count THEN 8
    ELSE IF AtLeast(index, count, 8) /\ 10 * index <= 9 * count THEN 9
    ELSE 10

\* lines 93-114: the branch of the if-chain taken (10 is the else branch)
PositionBranch(index, count) ==
    IF AtLeast(index, count, 0) /\ Below(index, count, 1) THEN 1
    ELSE IF AtLeast(index, count, 1) /\ Below(index, count, 2) THEN 2
    ELSE IF AtLeast(index, count, 2) /\ Below(index, count, 3) THEN 3
    ELSE IF AtLeast(index, count, 3) /\ Below(index, count, 4) THEN 4
    ELSE IF AtLeast(index, count, 4) /\ Below(index, count, 5) THEN 5
    ELSE IF AtLeast(index, count, 5) /\ Below(index, count, 6) THEN 6
    ELSE IF AtLeast(index, count, 6) /\ Below(index, count, 7) THEN 7
    ELSE IF AtLeast(index, count, 7) /\ Below(index, count, 8) THEN 8
    ELSE IF AtLeast(index, count, 8) /\ Below(index, count, 9) THEN 9
    ELSE 10

\* lines 96-114: the weight each branch assigns, in hundredths
BranchWeight(branch) ==
    CASE branch = 1 -> 17
      [] branch = 2 -> 23
      [] branch = 3 -> 14
      [] branch = 4 -> 8
      [] branch = 5 -> 5
      [] branch = 6 -> 4
      [] branch = 7 -> 6
      [] branch = 8 -> 4
      [] branch = 9 -> 4
      [] OTHER -> 15

\* lines 92-116: every score of the list multiplied in place
weigh_sentences_by_position(scores) ==
    [i \in 1..Len(scores) |->
        [scores[i] EXCEPT !.score =
            RatMul(@, Rat(BranchWeight(PositionBranch(i - 1, Len(scores))),
                          100))]]

----------------------------------------------------------------------------
\* lines 60-64: ranking

\* e goes behind every entry whose score is at least its own
RECURSIVE InsertDescending(_, _)
InsertDescending(e, s) ==
    IF s = <<>> THEN <<e>>
    ELSE IF RatLess(Head(s).score, e.score) THEN <<e>> \o s
    ELSE <<Head(s)>> \o InsertDescending(e, Tail(s))

\* e goes in front of every entry whose score is at most its own
RECURSIVE InsertDescendingFirst(_, _)
InsertDescendingFirst(e, s) ==
    IF s = <<>> THEN <<e>>
    ELSE IF RatLess(e.score, Head(s).score)
         THEN <<Head(s)>> \o InsertDescendingFirst(e, Tail(s))
    ELSE <<e>> \o s

RECURSIVE sorted_Unstable(_)
sorted_Unstable(scores) ==
    IF scores = <<>> THEN <<>>
    ELSE InsertDescendingFirst(scores[Len(scores)],
                               sorted_Unstable(SubSeq(scores, 1, Len(scores) - 1)))

\* lines 60-61: sorted(..., key=itemgetter(0), reverse=True), a stable sort
RECURSIVE sorted(_)
sorted(scores) ==
    IF scores = <<>> THEN <<>>
    ELSE InsertDescending(scores[Len(scores)],
                          sorted(SubSeq(scores, 1, Len(scores) - 1)))

\* lines 62-64
RankedSentences(scores) == [i \in 1..Len(scores) |-> scores[i].sentence]

----------------------------------------------------------------------------
\* ArticleSummarizer.get_top_sentences, lines 118-134

\* int(x) of the quotient a/b, b > 0: truncation toward zero
IntOf(a, b) == IF a >= 0 THEN a \div b ELSE -((-a) \div b)

\* line 128
TopCount(percentage, sents) == IntOf(percentage * Len(sents), 100)

\* line 131: ranked_sentences[0:n], a negative n counting from the end
Slice(ranked, n) ==
    LET stop == IF n >= 0 THEN (IF n < Len(ranked) THEN n ELSE Len(ranked))
                ELSE (IF Len(ranked) + n > 0 THEN Len(ranked) + n ELSE 0)
    IN  SubSeq(ranked, 1, stop)

get_top_sentences_RankOrder(percentage, sents, ranked) ==
    Slice(ranked, TopCount(percentage, sents))

\* lines 128-134
get_top_sentences(percentage, sents, ranked) ==
    LET top == Range(Slice(ranked, TopCount(percentage, sents)))
    IN  SelectSeq(sents, LAMBDA s : s \in top)

----------------------------------------------------------------------------
\* The state machine

\* The articles constructed: up to MaxSentences pairwise distinct sentences
\* (the empty article included), or one sentence twice verbatim.
Article ==
    {a \in UNION {[1..n -> Sentence] : n \in 0..MaxSentences} :
        \A i, j \in 1..Len(a) : (i < j /\ a[i] = a[j]) => Len(a) = 2}

NoCall == [called |-> FALSE, percentage |-> 0, result |-> <<>>]

NoLookup == [index |-> 0, count |-> 1, branch |-> 0, weight |-> 0]

Init ==
    /\ word_frequency = [w \in Word |-> 0]
    /\ sentence_scores = <<>>
    /\ document_frequency = [w \in Word |-> 0]
    /\ document_count = 0
    /\ sentences = <<>>
    /\ document_number = 0
    /\ self_sentence_scores = <<>>
    /\ ranked_sentences = <<>>
    /\ idf_calls = {}
    /\ top_sentences = NoCall
    /\ history = <<>>
    /\ position = NoLookup

\* ArticleSummarizer(article, document_count, document_frequency), lines 16-64.
\* self.__sentence_scores and self.__word_frequency name the class attributes
\* until line 60 binds an instance attribute; the int argument is passed by
\* value, the dict by reference.
Construct(article) ==
    /\ Len(history) < MaxConstructions
    /\ LET sents == tokenize_sentence(article)
           number == NewDocumentNumber(document_count)
           frequency == CountWords(word_frequency, sents)
           table == UpdateDocumentFrequency(document_frequency, WordSet(sents))
           weighed == weigh_sentences_by_position(
                          AppendScores(sentence_scores, sents, frequency,
                                       number, table))
           ranked == sorted(weighed)
       IN  /\ sentences' = sents
           /\ document_number' = number
           /\ word_frequency' = frequency
           /\ document_frequency' = table
           /\ idf_calls' = IdfCalls(sents, number, table)
           /\ sentence_scores' = weighed
           /\ self_sentence_scores' = ranked
           /\ ranked_sentences' = RankedSentences(ranked)
    /\ top_sentences' = NoCall
    /\ history' = Append(history, [article |-> article,
                                   document_number |-> document_count])
    /\ UNCHANGED <<document_count, position>>

\* instance.get_top_sentences(percentage) on the latest instance
GetTopSentences(percentage) ==
    /\ Len(history) > 0
    /\ top_sentences' =
          [called |-> TRUE, percentage |-> percentage,
           result |-> get_top_sentences(percentage, sentences, ranked_sentences)]
    /\ UNCHANGED <<word_frequency, sentence_scores, document_frequency,
                   document_count, sentences, document_number,
                   self_sentence_scores, ranked_sentences, idf_calls, history,
                   position>>

\* The caller reads instance.document_number into the count it holds.
ThreadDocumentCount ==
    /\ Len(history) > 0
    /\ document_count # document_number
    /\ document_count' = document_number
    /\ UNCHANGED <<word_frequency, sentence_scores, document_frequency,
                   sentences, document_number, self_sentence_scores,
                   ranked_sentences, idf_calls, top_sentences, history,
                   position>>

\* Articles constructed one after the other against one table, the caller
\* threading the count or not.
Next ==
    \/ \E article \in Article : Construct(article)
    \/ ThreadDocumentCount

Spec == Init /\ [][Next]_vars

\* Articles constructed one after the other and their summaries requested.
NextTop ==
    \/ \E article \in Article : Construct(article)
    \/ \E percentage \in Percentage : GetTopSentences(percentage)

SpecTop == Init /\ [][NextTop]_vars

\* The positional lookup alone, over every index of every list length.
InitPosition ==
    /\ Init!1 /\ Init!2 /\ Init!3 /\ Init!4 /\ Init!5 /\ Init!6
    /\ Init!7 /\ Init!8 /\ Init!9 /\ Init!10 /\ Init!11
    /\ position \in {[index |-> i, count |-> n, branch |-> 0, weight |-> 0] :
                        n \in 1..MaxCount, i \in 0..(MaxCount - 1)}
    /\ position.index < position.count

LookUpWeight ==
    /\ position.branch = 0
    /\ position' = [position EXCEPT
                       !.branch = PositionBranch(position.index, position.count),
                       !.weight = BranchWeight(PositionBranch(position.index,
                                                              position.count))]
    /\ UNCHANGED summarizer_vars

NextPosition == LookUpWeight

SpecPosition == InitPosition /\ [][NextPosition]_vars


----------------------------------------------------------------------------
\* Properties

Count(x, s) == Cardinality({i \in 1..Len(s) : s[i] = x})

Occurrences(word, sents) ==
    Cardinality({<<i, j>> \in (1..Len(sents)) \X (1..2) :
                    /\ j <= Len(tokenize_word(sents[i]))
                    /\ tokenize_word(sents[i])[j] = word})

Holds(article, word) ==
    \E i \in 1..Len(article) : \E j \in 1..Len(tokenize_word(article[i])) :
        tokenize_word(article[i])[j] = word

DocumentsHolding(word) ==
    Cardinality({k \in 1..Len(history) : Holds(history[k].article, word)})

Constructed == Len(history) > 0

LastArgument == history[Len(history)].document_number

Distinct(s) == \A i, j \in 1..Len(s) : i # j => s[i] # s[j]

\* C1: ranked_sentences of every instance, also of one constructed after
\* earlier instances, has the length of sentences and holds each sentence
\* string exactly as often as sentences does.
C1_RankedIsPermutation ==
    Constructed =>
        /\ Len(ranked_sentences) = Len(sentences)
        /\ \A s \in Sentence : Count(s, ranked_sentences) = Count(s, sentences)

\* C2: the word-frequency table behind tf maps each word to its number of
\* occurrences in the instance's own article only, whatever was constructed
\* before.
C2_WordFrequencyOwnArticle ==
    Constructed =>
        \A w \in Word : word_frequency[w] = Occurrences(w, sentences)

\* C3: starting from the empty table, document_frequency[w] is the number of
\* constructions so far whose article holds the word w at least once (one per
\* article however often the word occurs in it, two for the same article
\* constructed twice, no entry ever decremented).
C3_DocumentFrequencyCountsDocuments ==
    \A w \in Word : document_frequency[w] = DocumentsHolding(w)

C3_Witness ==
    /\ Len(history) = 2
    /\ history[1].article = <<"Cat cat.">>
    /\ history[2].article = <<"Cat cat.">>
    /\ document_frequency["cat"] = 2
    /\ document_frequency["dog"] = 0

\* C4: get_top_sentences(percentage) is empty for every percentage <= 0.
C4_NonPositiveGivesEmpty ==
    (top_sentences.called /\ top_sentences.percentage <= 0) =>
        top_sentences.result = <<>>

\* C5: after a construction the count the caller holds is the incremented
\* one, that of the instance.
C5_CallerCountIncremented ==
    Constructed => document_count = document_number

\* C5, as amended: a construction with count d leaves the caller's own count
\* at d and sets the instance's document_number to d + 1, while the caller's
\* document-frequency table is updated in place.
C5_InstanceCountIncremented ==
    [][Len(history') = Len(history) + 1 =>
          /\ document_number' = document_count + 1
          /\ document_count' = document_count
          /\ \A w \in Word :
                document_frequency'[w] =
                    document_frequency[w]
                    + (IF Holds(history'[Len(history')].article, w)
                       THEN 1 ELSE 0)]_vars

C5_Witness ==
    /\ Len(history) = 2
    /\ document_count = 0
    /\ document_number = 1
    /\ document_frequency["cat"] = 2

WeightTable == <<17, 23, 14, 8, 5, 4, 6, 4, 4, 15>>

InBucket(index, count, k) ==
    k * count <= 10 * index /\ 10 * index < (k + 1) * count

\* C7: for every count N > 0 and index 0 <= i < N, i/N lies in exactly one
\* bucket [k/10, (k+1)/10), the weight is the k-th entry of the table, and the
\* else branch is taken exactly when i/N >= 0.9.
C7_PositionWeightMatchesTable ==
    position.branch # 0 =>
        /\ \E k \in 0..9 :
              /\ InBucket(position.index, position.count, k)
              /\ \A m \in 0..9 :
                    InBucket(position.index, position.count, m) => m = k
              /\ position.weight = WeightTable[k + 1]
        /\ (position.branch = 10) <=> (10 * position.index >= 9 * position.count)

C7_Witness ==
    /\ position.count = 10
    /\ position.index = 9
    /\ position.branch = 10
    /\ position.weight = 15

ScoresOf(scores, v) == SelectSeq(scores, LAMBDA e : e.score = v)

\* C8: ranked_sentences follows the weighted scores, which never increase
\* from one rank to the next, and sentences of equal weighted score keep the
\* order they have in sentences.
C8_RankedDescendingAndStable ==
    Constructed =>
        /\ ranked_sentences = [i \in 1..Len(self_sentence_scores) |->
                                  self_sentence_scores[i].sentence]
        /\ \A i \in 1..(Len(self_sentence_scores) - 1) :
              ~RatLess(self_sentence_scores[i].score,
                       self_sentence_scores[i + 1].score)
        /\ \A i \in 1..Len(sentences) :
              sentence_scores[Len(sentence_scores) - Len(sentences) + i].sentence
                  = sentences[i]
        /\ \A e \in Range(sentence_scores) :
              ScoresOf(self_sentence_scores, e.score)
                  = ScoresOf(sentence_scores, e.score)

C8_Witness ==
    /\ Len(history) = 1
    /\ sentences = <<"Go.", "Run.">>
    /\ sentence_scores[1].score = sentence_scores[2].score
    /\ ranked_sentences = <<"Go.", "Run.">>

\* C9: every idf call of a construction gets the document count d + 1 and a
\* table already updated for this article, so the word's entry is at least 1
\* (the number of articles so far that hold the word, this one included); one
\* call is made for every noun of the article.
C9_ScoringAfterCorpusUpdate ==
    Constructed =>
        /\ \A c \in idf_calls :
              /\ c.document_number = LastArgument + 1
              /\ c.frequency >= 1
              /\ c.frequency = DocumentsHolding(c.word)
        /\ \A w \in Word :
              Holds(sentences, w) <=> \E c \in idf_calls : c.word = w

C9_Witness ==
    /\ Len(history) = 2
    /\ LastArgument = 1
    /\ [word |-> "cat", document_number |-> 2, frequency |-> 2] \in idf_calls
    /\ [word |-> "dog", document_number |-> 2, frequency |-> 1] \in idf_calls

\* Every construction got the previous instance's document_number, 0 first.
Threaded ==
    \A k \in 1..Len(history) :
        history[k].document_number =
            IF k = 1 THEN 0
            ELSE NewDocumentNumber(history[k - 1].document_number)

\* C10: when the count is threaded from 0 and the table starts empty, every
\* entry of the table is between 1 and the instance's document_number, after
\* each construction and at each idf call.
C10_FrequencyWithinDocumentNumber ==
    (Constructed /\ Threaded) =>
        /\ \A w \in Word :
              document_frequency[w] # 0 =>
                  (1 <= document_frequency[w]
                   /\ document_frequency[w] <= document_number)
        /\ \A c \in idf_calls :
              1 <= c.frequency /\ c.frequency <= c.document_number

C10_Witness ==
    /\ Len(history) = 2
    /\ Threaded
    /\ document_number = 2
    /\ document_frequency["cat"] = 2
    /\ document_frequency["dog"] = 1

====
